---- MODULE Spec2Model ----
(***************************************************************************)
(* Replica job lifecycle of the Horus block "create_md_custom":           *)
(* run_script (initialAction) and download_data (finalAction) of           *)
(* src/molbiomed/Include/Blocks/create_md_custom.py.                       *)
(*                                                                         *)
(* State: the local batch workspace `fs` (md_custom_workdir and below),    *)
(* the remote file system `remoteFs`, the scheduler's submitted `jobs`,    *)
(* the block's persisted `extraData` and `outputs`, and the position of    *)
(* the handler invocation in progress (`pc`, `frame`).  `log` is the trace *)
(* of externally visible operations of the current (or last) invocation.   *)
(***************************************************************************)
EXTENDS Integers, Sequences, FiniteSets, TLC

VARIABLES
    fs,         \* local files: path below parent_workdir -> entry
    remoteFs,   \* remote work directories: remote path -> stage subtrees held
    jobs,       \* jobs the execution backend has accepted (never withdrawn)
    extraData,  \* block.extraData
    outputs,    \* block outputs set by setOutput
    block,      \* block.remote / block.variables / block.inputs as read by the handler
    pc,         \* "idle", "run_script", "download", "aggregate"
    frame,      \* locals of the invocation in progress
    result,     \* how the last invocation ended
    log,        \* operations performed by the current / last invocation
    prev,       \* aggregated links as the last completed download_data left them
    symlinks    \* whether the workspace's file system lets os.symlink succeed

vars == <<fs, remoteFs, jobs, extraData, outputs, block, pc, frame, result, log, prev, symlinks>>

\* ------------------------------------------------------------------ bounds
MaxReplicas == 3

\* ------------------------------------------------------- python values
PyNone == [t |-> "None", v |-> 0]
PyInt(n) == [t |-> "int", v |-> n]
PyDict(keys, residue) == [t |-> "dict", keys |-> keys, residue |-> residue]
EmptyDict == PyDict({}, PyNone)

\* bool(x): None, 0 and {} are falsy
Truthy(x) ==
    CASE x.t = "None" -> FALSE
      [] x.t = "int"  -> x.v # 0
      [] x.t = "dict" -> x.keys # {}

\* a or b
PyOr(a, b) == IF Truthy(a) THEN a ELSE b

\* d.get(k)
DictGet(d, k) == IF k \in d.keys THEN d.residue ELSE PyNone

\* ------------------------------------------------------------ inputs
LastResidueInputs == {PyNone, PyInt(0), PyInt(150)}
InteractiveInputs == {PyNone, PyDict({"residue"}, PyInt(42))}
PrmtopPaths == {<<"home", "user", "complex.prmtop">>}
InpcrdPaths == {<<"home", "user", "complex.inpcrd">>}
Machines == {"local", "csuc", "picard", "laptop"}
ReplicaCounts == 1..MaxReplicas

\* ---------------------------------------------------------- file system
Root == <<>>
Dir == [kind |-> "dir", data |-> <<>>, stale |-> FALSE]
File(src) == [kind |-> "file", data |-> src, stale |-> FALSE]
Link(target) == [kind |-> "link", data |-> target, stale |-> FALSE]
Pointer(target) == [kind |-> "ptr", data |-> target, stale |-> FALSE]

Exists(f, p) == p \in DOMAIN f

IsPrefix(p, q) == Len(p) <= Len(q) /\ SubSeq(q, 1, Len(p)) = p

\* Path.name
Name(p) == p[Len(p)]

\* os.makedirs(p, exist_ok=True); every caller's parent directory exists
Makedirs(f, p) == IF Exists(f, p) THEN f ELSE (p :> Dir) @@ f

\* faulty variant: nothing is removed
RmtreeMut(f, p) == f

\* shutil.rmtree(p)
Rmtree(f, p) == [q \in {x \in DOMAIN f : ~IsPrefix(p, x)} |-> f[q]]

\* shutil.copy2(src, dst): dst is created or overwritten
Copy2(f, src, dst) == (dst :> File(src)) @@ f

\* everything that exists when a new submission starts is from a prior run
MarkStale(f) == [q \in DOMAIN f |-> [f[q] EXCEPT !.stale = TRUE]]

\* -------------------------------------------------------------- naming
DigitStr == <<"0", "1", "2", "3", "4", "5", "6", "7", "8", "9">>

RECURSIVE Decimal(_)
Decimal(n) == IF n < 10 THEN DigitStr[n + 1] ELSE Decimal(n \div 10) \o DigitStr[(n % 10) + 1]

\* f"{n:02d}"
Format02d(n) == IF n < 10 THEN "0" \o Decimal(n) ELSE Decimal(n)

\* faulty variant: the index is not zero-padded
replica_tagMut(replica) == "replica_" \o Decimal(replica)

\* f"replica_{replica:02d}"
replica_tag(replica) == "replica_" \o Format02d(replica)

Stages == <<"preprod", "prod">>

\* f"{replica_tag}_{sub}"
link_name(tag, sub) == tag \o "_" \o sub

aggregated(sub) == <<sub \o "_replicas">>

\* block.flow.name.replace(" ", "_")
FlowName == <<"MD", " ", "run">>
ReplaceSpaces(s) == [i \in DOMAIN s |-> IF s[i] = " " THEN "_" ELSE s[i]]
remote_root == <<"scratch">> \o ReplaceSpaces(FlowName)

\* ------------------------------------------------------------- run_script
\* faulty variant: one more machine is let through
allowed_machinesMut == {"csuc", "local", "picard", "slurm", "laptop"}

allowed_machines == {"csuc", "local", "picard", "slurm"}

\* block.remote.isLocal
isLocal(machine) == machine = "local"

last_residue_value(b) ==
    PyOr(b.last_residue, DictGet(PyOr(b.last_residue_interactive, EmptyDict), "residue"))

Event(ev, replica, sub, r) == [ev |-> ev, replica |-> replica, sub |-> sub, r |-> r]

NoPrev == [valid |-> FALSE, repeat |-> FALSE, machine |-> "", replicas |-> 0, links |-> <<>>]

NoFrame == [replica |-> 0, remote_job_folders |-> <<>>]

\* how an invocation of handler `op` ends: normally, or by an exception
Ok(op) == [op |-> op, err |-> "none", text |-> ""]
Raised(op, err, text) == [op |-> op, err |-> err, text |-> text]

\* what the generator script may do: exit status, error stream, files produced
ScriptOutcomes ==
    {[returncode |-> 0, stderr |-> "", produced |-> {"preprod", "prod", "script.sh"}],
     [returncode |-> 1, stderr |-> "ERROR: tleap failed", produced |-> {}],
     [returncode |-> 2, stderr |-> "", produced |-> {}]}

\* faulty variant: accepting a job drops the jobs accepted before
submitJobMut(js, script) == {script}

\* block.remote.submitJob(script): the backend accepts the job
submitJob(js, script) == js \cup {script}

Produce(f, workdir, produced) ==
    [p \in {workdir \o <<n>> : n \in produced} |->
        IF Name(p) = "script.sh" THEN File(<<"create_md_custom.sh">>) ELSE Dir] @@ f

\* block.remote.sendData(workdir, remote_root): the remote copy of the replica directory
remote_workdir(tag) == remote_root \o <<tag>>
SendData(rfs, f, tag) ==
    (remote_workdir(tag) :> {s \in {"preprod", "prod"} : Exists(f, <<tag, s>>)}) @@ rfs

\* lines 96-132: validation, then the workspace is removed and recreated
RunScriptStart(Ms, LRs, LIs) ==
    /\ pc = "idle"
    /\ \E m \in Ms, n \in ReplicaCounts, lr \in LRs,
          li \in LIs, pp \in PrmtopPaths, ip \in InpcrdPaths :
        LET b == [machine |-> m, replicas |-> n, last_residue |-> lr,
                  last_residue_interactive |-> li, prmtop |-> pp, inpcrd |-> ip]
        IN /\ block' = b
           /\ prev' = NoPrev
           /\ IF ~Truthy(last_residue_value(b))
              THEN /\ result' = Raised("run_script", "MissingRequiredInput",
                                        "Last residue must be specified")
                   /\ log' = <<>>
                   /\ UNCHANGED <<fs, pc, frame>>
              ELSE IF m \notin allowed_machines
              THEN /\ result' = Raised("run_script", "UnsupportedBackend", m)
                   /\ log' = <<>>
                   /\ UNCHANGED <<fs, pc, frame>>
              ELSE /\ fs' = Makedirs(Rmtree(MarkStale(fs), Root), Root)
                   /\ log' = IF Exists(fs, Root)
                             THEN <<Event("rmtree", 0, "", 0), Event("makedirs", 0, "", 0)>>
                             ELSE <<Event("makedirs", 0, "", 0)>>
                   /\ pc' = "run_script"
                   /\ frame' = [NoFrame EXCEPT !.replica = 1]
                   /\ result' = Ok("run_script")
    /\ UNCHANGED <<remoteFs, jobs, extraData, outputs, symlinks>>

\* lines 229-230, reached when the loop is exhausted
FinishRunScript(folders) ==
    /\ extraData' = IF folders # <<>>
                    THEN ("remote_job_folders" :> folders) @@ extraData
                    ELSE extraData
    /\ pc' = "idle"
    /\ frame' = NoFrame
    /\ result' = Ok("run_script")

\* lines 144-227: one iteration of the replica loop
RunScriptReplica ==
    /\ pc = "run_script"
    /\ LET replica == frame.replica
           tag == replica_tag(replica)
           workdir == <<tag>>
           fs1 == Copy2(Copy2(Makedirs(fs, workdir),
                              block.prmtop, workdir \o <<Name(block.prmtop)>>),
                        block.inpcrd, workdir \o <<Name(block.inpcrd)>>)
           r == last_residue_value(block).v
           started == log \o <<Event("makedirs", replica, "", 0),
                               Event("copy2", replica, Name(block.prmtop), 0),
                               Event("copy2", replica, Name(block.inpcrd), 0),
                               Event("Popen", replica, block.machine, r)>>
       IN \E out \in ScriptOutcomes :
            LET fs2 == Produce(fs1, workdir, out.produced)
                exited == started \o <<Event("exit", replica, out.stderr, out.returncode)>>
            IN /\ fs' = fs2
               /\ IF out.returncode # 0
                  THEN /\ result' = Raised("run_script", "ExternalScriptFailure", out.stderr)
                       /\ log' = exited
                       /\ pc' = "idle"
                       /\ frame' = NoFrame
                       /\ UNCHANGED <<remoteFs, jobs, extraData>>
                  ELSE LET folders == IF isLocal(block.machine)
                                      THEN frame.remote_job_folders
                                      ELSE Append(frame.remote_job_folders, remote_workdir(tag))
                       IN /\ IF isLocal(block.machine)
                             THEN /\ jobs' = submitJob(jobs, workdir \o <<"script.sh">>)
                                  /\ log' = exited \o <<Event("submitJob", replica, "local", 0)>>
                                  /\ UNCHANGED remoteFs
                             ELSE /\ remoteFs' = SendData(remoteFs, fs2, tag)
                                  /\ jobs' = submitJob(jobs, remote_workdir(tag) \o <<"script.sh">>)
                                  /\ log' = exited \o <<Event("mkdir -p", replica, "remote", 0),
                                                         Event("sendData", replica, "remote", 0),
                                                         Event("submitJob", replica, "remote", 0)>>
                          /\ IF replica < block.replicas
                             THEN /\ frame' = [frame EXCEPT !.replica = replica + 1,
                                                            !.remote_job_folders = folders]
                                  /\ UNCHANGED <<pc, result, extraData>>
                             ELSE FinishRunScript(folders)
    /\ UNCHANGED <<outputs, block, prev, symlinks>>

\* ---------------------------------------------------------- download_data
\* block.extraData.get("remote_job_folders", [])
ExtraGet(d) == IF "remote_job_folders" \in DOMAIN d THEN d["remote_job_folders"] ELSE <<>>

\* Path.exists(): a symbolic link exists when its target does
PathExists(f, p) == Exists(f, p) /\ (f[p].kind = "link" => Exists(f, f[p].data))

\* what the aggregated directories hold
AggregatedLinks(f) == [p \in {q \in DOMAIN f : Len(q) = 2 /\ \E i \in 1..2 : q[1] = aggregated(Stages[i])[1]} |-> f[p]]

\* lines 262-265, then the link loop starts
EnterAggregate(f) ==
    /\ fs' = Makedirs(Makedirs(f, aggregated("preprod")), aggregated("prod"))
    /\ pc' = "aggregate"
    /\ frame' = [replica |-> 1, remote_job_folders |-> <<>>]

\* an invocation that ends by an exception
Abort(err, text) ==
    /\ result' = Raised("download_data", err, text)
    /\ pc' = "idle"
    /\ frame' = NoFrame
    /\ prev' = NoPrev

\* faulty variant: only a surplus of handles counts as a mismatch
CountMismatchMut(folders, n) == Len(folders) > n

\* line 247
CountMismatch(folders, n) == Len(folders) # n

\* lines 237-251
DownloadStart(Ms) ==
    /\ pc = "idle"
    /\ \E m \in Ms, n \in ReplicaCounts :
        LET folders == ExtraGet(extraData)
            again == prev.valid /\ prev.machine = m /\ prev.replicas = n
        IN /\ block' = [block EXCEPT !.machine = m, !.replicas = n]
           /\ IF ~Exists(fs, Root)
              THEN /\ Abort("WorkspaceNotFound", "Parent workdir not found")
                   /\ log' = <<>>
                   /\ UNCHANGED fs
              ELSE /\ result' = Ok("download_data")
                   /\ prev' = IF again THEN [prev EXCEPT !.repeat = TRUE] ELSE NoPrev
                   /\ log' = IF ~isLocal(m) /\ CountMismatch(folders, n)
                             THEN <<Event("warning", 0, "", 0)>> ELSE <<>>
                   /\ IF ~isLocal(m) /\ folders # <<>>
                      THEN /\ pc' = "download"
                           /\ frame' = [replica |-> 1, remote_job_folders |-> folders]
                           /\ UNCHANGED fs
                      ELSE EnterAggregate(fs)
    /\ UNCHANGED <<remoteFs, jobs, extraData, outputs, symlinks>>

\* block.remote.getData(remote_sub, local_sub): what the transfer may do
GetDataOutcomes(remote_folder, sub, faults) ==
    (IF remote_folder \in DOMAIN remoteFs /\ sub \in remoteFs[remote_folder]
     THEN {"ok"} ELSE {"none"})
    \cup (IF faults THEN {"raise"} ELSE {})

Downloaded(remote_sub) == [kind |-> "dir", data |-> remote_sub, stale |-> FALSE]

GetData(f, remote_folder, tag, sub, o) ==
    IF o = "ok" THEN (<<tag, sub>> :> Downloaded(remote_folder \o <<sub>>)) @@ f ELSE f

\* lines 252-260: one iteration of the handle loop
DownloadReplica(faults) ==
    /\ pc = "download"
    /\ LET idx == frame.replica
           remote_folder == frame.remote_job_folders[idx]
           tag == replica_tag(idx)
           fs1 == Makedirs(fs, <<tag>>)
           ev(sub) == Event("getData", idx, sub, 0)
       IN \E o1 \in GetDataOutcomes(remote_folder, "preprod", faults),
             o2 \in GetDataOutcomes(remote_folder, "prod", faults) :
            LET fs2 == GetData(fs1, remote_folder, tag, "preprod", o1)
                fs3 == GetData(fs2, remote_folder, tag, "prod", o2)
            IN IF o1 = "raise"
               THEN /\ Abort("DownloadFailure", "preprod")
                    /\ fs' = fs1
                    /\ log' = log \o <<ev("preprod")>>
               ELSE IF o2 = "raise"
               THEN /\ Abort("DownloadFailure", "prod")
                    /\ fs' = fs2
                    /\ log' = log \o <<ev("preprod"), ev("prod")>>
               ELSE /\ log' = log \o <<ev("preprod"), ev("prod")>>
                    /\ IF idx < Len(frame.remote_job_folders)
                       THEN /\ fs' = fs3
                            /\ frame' = [frame EXCEPT !.replica = idx + 1]
                            /\ UNCHANGED pc
                       ELSE EnterAggregate(fs3)
                    /\ UNCHANGED <<result, prev>>
    /\ UNCHANGED <<remoteFs, jobs, extraData, outputs, block, symlinks>>

\* os.symlink, and on OSError the pointer file written in its place
\* ("raise": the pointer file cannot be written either, and the OSError leaves the handler)
LinkOutcomes(sym, faults) ==
    (IF sym THEN {"symlink"} ELSE {"pointer"}) \cup (IF faults THEN {"raise"} ELSE {})

\* faulty variant: an existing link name is not skipped
NeedsLinkMut(f, tag, sub) == PathExists(f, <<tag, sub>>)

\* lines 275-277: the stage subtree exists and the link name does not
NeedsLink(f, tag, sub) ==
    /\ PathExists(f, <<tag, sub>>)
    /\ ~PathExists(f, aggregated(sub) \o <<link_name(tag, sub)>>)

\* lines 274-282 for one stage
LinkOne(f, tag, sub, o) ==
    LET src == <<tag, sub>>
        name == aggregated(sub) \o <<link_name(tag, sub)>>
    IN IF NeedsLink(f, tag, sub) /\ o # "raise"
       THEN (name :> (IF o = "symlink" THEN Link(src) ELSE Pointer(src))) @@ f
       ELSE f

LinkEvents(f, replica, tag, sub, o) ==
    IF NeedsLink(f, tag, sub) THEN <<Event(o, replica, sub, 0)>> ELSE <<>>

\* lines 267-285: one iteration of the aggregation loop; the outputs are set after the last
LinkReplica(faults) ==
    /\ pc = "aggregate"
    /\ LET replica == frame.replica
           tag == replica_tag(replica)
       IN \E o1 \in LinkOutcomes(symlinks, faults),
             o2 \in LinkOutcomes(symlinks, faults) :
            LET fs1 == LinkOne(fs, tag, "preprod", o1)
                fs2 == LinkOne(fs1, tag, "prod", o2)
                e1 == LinkEvents(fs, replica, tag, "preprod", o1)
                e2 == LinkEvents(fs1, replica, tag, "prod", o2)
            IN IF NeedsLink(fs, tag, "preprod") /\ o1 = "raise"
               THEN /\ Abort("OSError", "preprod")
                    /\ fs' = fs1
                    /\ log' = log \o e1
                    /\ UNCHANGED outputs
               ELSE IF NeedsLink(fs1, tag, "prod") /\ o2 = "raise"
               THEN /\ Abort("OSError", "prod")
                    /\ fs' = fs2
                    /\ log' = log \o e1 \o e2
                    /\ UNCHANGED outputs
               ELSE /\ fs' = fs2
                    /\ IF replica < block.replicas
                       THEN /\ frame' = [frame EXCEPT !.replica = replica + 1]
                            /\ log' = log \o e1 \o e2
                            /\ UNCHANGED <<pc, result, outputs, prev>>
                       ELSE /\ outputs' = ("prod_folder" :> aggregated("prod"))
                                          @@ ("preprod_folder" :> aggregated("preprod"))
                                          @@ outputs
                            /\ log' = log \o e1 \o e2 \o <<Event("setOutput", 0, "preprod", 0),
                                                            Event("setOutput", 0, "prod", 0)>>
                            /\ pc' = "idle"
                            /\ frame' = NoFrame
                            /\ result' = Ok("download_data")
                            /\ prev' = IF prev.valid /\ prev.repeat
                                       THEN prev
                                       ELSE [valid |-> TRUE, repeat |-> FALSE,
                                             machine |-> block.machine,
                                             replicas |-> block.replicas,
                                             links |-> AggregatedLinks(fs2)]
    /\ UNCHANGED <<remoteFs, jobs, extraData, block, symlinks>>

\* ------------------------------------------------------------ behaviours
Init ==
    /\ fs = <<>>
    /\ remoteFs = <<>>
    /\ jobs = {}
    /\ extraData = <<>>
    /\ outputs = <<>>
    /\ block = [machine |-> "local", replicas |-> 1, last_residue |-> PyInt(150),
                last_residue_interactive |-> PyNone,
                prmtop |-> <<"home", "user", "complex.prmtop">>,
                inpcrd |-> <<"home", "user", "complex.inpcrd">>]
    /\ pc = "idle"
    /\ frame = NoFrame
    /\ result = Ok("none")
    /\ log = <<>>
    /\ prev = NoPrev
    /\ symlinks \in BOOLEAN

\* the lifecycle with valid requests and transfers and links that do not fail
Next ==
    \/ RunScriptStart({"local", "slurm"}, {PyInt(150)}, {PyNone})
    \/ RunScriptReplica
    \/ DownloadStart({"local", "slurm"})
    \/ DownloadReplica(FALSE)
    \/ LinkReplica(FALSE)

Spec == Init /\ [][Next]_vars

\* requests of every kind, valid or not, against whatever an earlier submission left
NextInputs ==
    \/ RunScriptStart(Machines, LastResidueInputs, InteractiveInputs)
    \/ RunScriptReplica

SpecInputs == Init /\ [][NextInputs]_vars

\* the lifecycle on a remote backend when a transfer or the creation of a link may fail
NextFault ==
    \/ RunScriptStart({"slurm"}, {PyInt(150)}, {PyNone})
    \/ RunScriptReplica
    \/ DownloadStart({"slurm"})
    \/ DownloadReplica(TRUE)
    \/ LinkReplica(TRUE)

SpecFault == Init /\ [][NextFault]_vars

\* --------------------------------------------------------------- claims
Returned(op) == pc = "idle" /\ result.op = op

\* positions of the log that hold an operation `ev` on `replica`
At(ev, replica) == {i \in DOMAIN log : log[i].ev = ev /\ log[i].replica = replica}
Did(ev) == {i \in DOMAIN log : log[i].ev = ev}
Touched(replica) == {i \in DOMAIN log : log[i].replica = replica}

\* the job descriptor a replica's submission hands to the backend
JobOf(machine, replica) ==
    IF machine = "local"
    THEN <<replica_tag(replica), "script.sh">>
    ELSE <<"scratch", "MD", "_", "run", replica_tag(replica), "script.sh">>

ExpectedTag == <<"replica_01", "replica_02", "replica_03", "replica_04", "replica_05",
                 "replica_06", "replica_07", "replica_08", "replica_09", "replica_10">>

\* C1: when the generator script of replica k exits non-zero, the jobs of replicas
\* 1..k-1 are (still) submitted, replica k is not submitted, replicas k+1..N are
\* not attempted at all (no directory, no copy, no script, no job), and the call
\* fails with ExternalScriptFailure carrying the error stream captured from replica k.
C1_FailFast ==
    (Returned("run_script") /\ result.err = "ExternalScriptFailure") =>
        LET last == log[Len(log)]
            k == last.replica
        IN /\ last.ev = "exit" /\ last.r # 0 /\ k \in 1..block.replicas
           /\ result.text = last.sub
           /\ \A j \in 1..(k - 1) :
                /\ At("submitJob", j) # {}
                /\ JobOf(block.machine, j) \in jobs
           /\ At("submitJob", k) = {}
           /\ \A j \in (k + 1)..block.replicas :
                /\ Touched(j) = {}
                /\ ~Exists(fs, <<ExpectedTag[j]>>)

C1_Witness ==
    /\ Returned("run_script") /\ result.err = "ExternalScriptFailure"
    /\ result.text = "ERROR: tleap failed"
    /\ block.replicas = 3 /\ block.machine = "slurm"
    /\ log[Len(log)].replica = 2
    /\ JobOf("slurm", 1) \in jobs

\* C2: a valid request with N replicas whose scripts all exit 0 leaves exactly the
\* N replica directories replica_01 .. replica_0N, each holding a copy of both
\* input files under the file's own name.
C2_ReplicaDirs ==
    (Returned("run_script") /\ result.err = "none") =>
        /\ {p \in DOMAIN fs : Len(p) = 1} = {<<ExpectedTag[i]>> : i \in 1..block.replicas}
        /\ \A i \in 1..block.replicas :
            /\ fs[<<ExpectedTag[i]>>].kind = "dir"
            /\ Exists(fs, <<ExpectedTag[i], "complex.prmtop">>)
            /\ fs[<<ExpectedTag[i], "complex.prmtop">>] = File(block.prmtop)
            /\ Exists(fs, <<ExpectedTag[i], "complex.inpcrd">>)
            /\ fs[<<ExpectedTag[i], "complex.inpcrd">>] = File(block.inpcrd)

C2_Witness ==
    /\ Returned("run_script") /\ result.err = "none"
    /\ block.replicas = 3
    /\ Exists(fs, <<"replica_03", "complex.inpcrd">>)

\* C3: once a submission has passed validation, the workspace holds nothing that
\* existed before the call: no earlier replica directory, downloaded subtree,
\* aggregated directory or link; only replica directories 1..N of this request.
C3_CleanSlate ==
    (result.op = "run_script" /\ result.err \in {"none", "ExternalScriptFailure"}) =>
        \A p \in DOMAIN fs :
            /\ ~fs[p].stale
            /\ p = Root \/ \E i \in 1..block.replicas : p[1] = ExpectedTag[i]

C3_Witness ==
    /\ Returned("run_script") /\ result.err = "none"
    /\ block.replicas = 1
    /\ Did("rmtree") # {}
    /\ <<"scratch", "MD", "_", "run", "replica_03">> \in DOMAIN remoteFs
    /\ "prod_folder" \in DOMAIN outputs
    /\ ~Exists(fs, <<"replica_02">>)

Supported == {"local", "picard", "csuc", "slurm"}
Supplied(x) == x.t # "None"
ResidueResolved == (block.last_residue.t = "int" /\ block.last_residue.v # 0)
                   \/ (block.last_residue_interactive.t = "dict"
                       /\ block.last_residue_interactive.residue.t = "int"
                       /\ block.last_residue_interactive.residue.v # 0)

\* a step that is an invocation of run_script on a request with an unsupported backend
UnsupportedCall == pc = "idle" /\ result'.op = "run_script" /\ block'.machine \notin Supported

Untouched == /\ fs' = fs /\ remoteFs' = remoteFs /\ jobs' = jobs
             /\ extraData' = extraData /\ outputs' = outputs

\* C4 as stated: an unsupported backend identifier makes run_script fail with
\* UnsupportedBackend, and nothing is removed, copied, run, submitted or recorded.
C4_AsStated ==
    (Returned("run_script") /\ block.machine \notin Supported) =>
        /\ result.err = "UnsupportedBackend"
        /\ log = <<>>

\* C4 amended: with an unsupported backend identifier run_script always fails
\* before touching anything (workspace, remote side, jobs, handle list); the
\* error is UnsupportedBackend naming the identifier when the last residue is
\* resolved, and MissingRequiredInput when it is not (that check comes first).
C4_UnsupportedBackend ==
    /\ [](block.machine \notin Supported /\ result.op = "run_script" =>
            /\ pc = "idle" /\ log = <<>>
            /\ ResidueResolved => result.err = "UnsupportedBackend" /\ result.text = block.machine
            /\ ~ResidueResolved => result.err = "MissingRequiredInput")
    /\ [][UnsupportedCall => Untouched /\ pc' = "idle"]_vars

C4_Witness ==
    /\ Returned("run_script") /\ result.err = "UnsupportedBackend"
    /\ block.machine = "laptop"
    /\ Exists(fs, <<"replica_02", "complex.prmtop">>)
    /\ jobs # {}

\* C5: without an explicit index and without an interactive selection run_script
\* fails with MissingRequiredInput before anything is run; an explicit index, when
\* supplied, is the value every generator-script invocation receives.
C5_LastResidue ==
    (result.op = "run_script") =>
        /\ (~Supplied(block.last_residue) /\ ~Supplied(block.last_residue_interactive)) =>
                result.err = "MissingRequiredInput" /\ pc = "idle" /\ log = <<>>
        /\ Supplied(block.last_residue) =>
                \A i \in Did("Popen") : log[i].r = block.last_residue.v

Handles == ExtraGet(extraData)
HandleOf(i) == <<"scratch", "MD", "_", "run", ExpectedTag[i]>>
LinkPath(i, sub) == <<sub \o "_replicas", ExpectedTag[i] \o "_" \o sub>>
StageSet == {"preprod", "prod"}

\* C6: a second download_data right after a first one, with the same replica
\* count on the same backend, succeeds and leaves the two aggregated directories
\* exactly as the first call left them: no link is created again, re-targeted,
\* replaced or added.
C6_IdempotentAggregation ==
    (Returned("download_data") /\ prev.valid /\ prev.repeat) =>
        /\ result.err = "none"
        /\ AggregatedLinks(fs) = prev.links
        /\ Did("symlink") = {} /\ Did("pointer") = {}

C6_Witness ==
    /\ Returned("download_data") /\ prev.valid /\ prev.repeat
    /\ block.machine = "slurm" /\ block.replicas = 3
    /\ Did("getData") # {}
    /\ Exists(fs, LinkPath(2, "prod")) /\ Exists(fs, LinkPath(1, "preprod"))

\* C7: on a remote backend, download_data with fewer recorded handles than
\* replicas (none included) warns, downloads preprod then prod for exactly the
\* replicas that have a handle, in recorded order and each from its own handle,
\* completes, sets both outputs, and gives a replica without a handle no download
\* and, where it has no local stage subtree, no link.
C7_PartialDownload ==
    (Returned("download_data") /\ ~isLocal(block.machine)
        /\ result.err # "WorkspaceNotFound" /\ Len(Handles) < block.replicas) =>
        /\ result.err = "none"
        /\ Did("warning") # {}
        /\ \E first \in DOMAIN log :
             /\ log[first].ev = "warning"
             /\ \A i \in 1..Len(Handles) :
                  /\ log[first + 2 * i - 1] = Event("getData", i, "preprod", 0)
                  /\ log[first + 2 * i] = Event("getData", i, "prod", 0)
        /\ Cardinality(Did("getData")) = 2 * Len(Handles)
        /\ \A i \in 1..Len(Handles), sub \in StageSet :
             fs[<<ExpectedTag[i], sub>>] = Downloaded(Handles[i] \o <<sub>>)
        /\ outputs = ("preprod_folder" :> <<"preprod_replicas">>)
                     @@ ("prod_folder" :> <<"prod_replicas">>)
        /\ Cardinality(Did("setOutput")) = 2
        /\ \A j \in (Len(Handles) + 1)..block.replicas, sub \in StageSet :
             /\ At("getData", j) = {}
             /\ ~Exists(fs, <<ExpectedTag[j], sub>>) => ~Exists(fs, LinkPath(j, sub))

C7_Witness ==
    /\ Returned("download_data") /\ block.machine = "slurm"
    /\ Len(Handles) = 2 /\ block.replicas = 3
    /\ Did("warning") # {} /\ Did("getData") # {}
    /\ ~Exists(fs, <<"replica_03">>)
    /\ Exists(fs, LinkPath(2, "prod"))

\* C8: in download_data a failed transfer or a failed link creation for one
\* replica leaves the others processed: every other replica that has a handle
\* has both stages downloaded and every other replica whose local stage subtree
\* exists has its link (the replica an exception came from is the last one logged).
C8_FailuresDoNotAbort ==
    (Returned("download_data") /\ result.err # "WorkspaceNotFound") =>
        LET failed == IF result.err = "none" THEN 0 ELSE log[Len(log)].replica
        IN /\ ~isLocal(block.machine) =>
                \A i \in (1..Len(Handles)) \ {failed} : Cardinality(At("getData", i)) = 2
           /\ \A j \in (1..block.replicas) \ {failed}, sub \in StageSet :
                Exists(fs, <<ExpectedTag[j], sub>>) => Exists(fs, LinkPath(j, sub))

\* C9: on a remote backend, however run_script ends after validation (completed
\* or aborted by a replica's script failure), the persisted handle list holds the
\* remote work directory of exactly the replicas submitted in this run, in order.
C9_HandlesPersisted ==
    (Returned("run_script") /\ ~isLocal(block.machine)
        /\ result.err \in {"none", "ExternalScriptFailure"}) =>
        LET submitted == {j \in 1..block.replicas : At("submitJob", j) # {}}
        IN Handles = [i \in 1..Cardinality(submitted) |-> HandleOf(i)]

\* C10: on the local backend a valid request whose scripts all succeed submits
\* exactly N local jobs, replica i before replica i+1's script is started, creates
\* no remote directory and transfers nothing, and leaves no remote handle list
\* recorded, whatever ran before.
C10_LocalBatch ==
    (Returned("run_script") /\ isLocal(block.machine) /\ result.err = "none") =>
        /\ \A j \in 1..block.replicas :
             /\ Cardinality(At("submitJob", j)) = 1
             /\ \A i \in At("submitJob", j) : log[i].sub = "local"
             /\ j < block.replicas =>
                  \A i \in At("submitJob", j), i2 \in At("Popen", j + 1) : i < i2
        /\ Cardinality(Did("submitJob")) = block.replicas
        /\ Did("mkdir -p") = {} /\ Did("sendData") = {}
        /\ "remote_job_folders" \notin DOMAIN extraData
====
